---- MODULE Spec2Model ----
(***************************************************************************)
(* A model of entry.mjs: the screenshot cache key (toScreenshotCacheSlug), *)
(* the GET /embed handler and the GET /screenshot.png handler with its     *)
(* in-memory index (screenshotCache), the persisted index (cache.json),    *)
(* the PNG files under .tmp and the pages of the shared browser context.   *)
(*                                                                         *)
(* A JavaScript string is a sequence of characters, each character a TLA+  *)
(* string: "a", "x", "y", the separators ",", ";", ":", and for the key    *)
(* comparison "U+00E9" (e with acute, precomposed), "e" and "U+0301" (the  *)
(* combining acute accent).  A multi-letter token such as "Asia/Tokyo"     *)
(* stands for a run of characters that holds no separator.                 *)
(***************************************************************************)
EXTENDS Integers, Sequences, FiniteSets, TLC

VARIABLES
    \* the cache key derivation applied to two query mappings
    queryA, queryB, slugA, slugB, slugPc,
    \* GET /embed: the request's query and the response
    embedQuery, embedResult,
    \* GET /screenshot.png: shared state
    screenshotCache, files, cacheJson, pages,
    \* GET /screenshot.png: each request's position and locals
    pc, reqQuery, argPath, jsonText, result, sent,
    \* history of the requests, read by the properties only: what each found
    \* at line 150 (hit, stale or miss, and the path the index held), how often
    \* it invoked the capture, whether it changed the index, a file or
    \* cache.json, whether it overlapped no other request, the request that
    \* had finished last when it arrived, and the file writes that failed
    entry, captures, mutated, solo, prev, lastDone, writeFailed

slugVars == <<queryA, queryB, slugA, slugB, slugPc>>
embedVars == <<embedQuery, embedResult>>
sharedVars == <<screenshotCache, files, cacheJson, pages>>
localVars == <<pc, reqQuery, argPath, jsonText, result, sent>>
histVars == <<entry, captures, mutated, solo, prev, lastDone, writeFailed>>
handlerVars == <<sharedVars, localVars, histVars>>
vars == <<slugVars, embedVars, handlerVars>>

(***************************************************************************)
(* Bounds of the model.                                                    *)
(***************************************************************************)
\* the most parameters a query mapping of the key derivation holds
MaxParams == 2
\* the number of GET /screenshot.png requests in a run
MaxRequests == 2

(***************************************************************************)
(* Strings and query mappings.                                             *)
(***************************************************************************)
\* a single string value of a query parameter
Str(s) == [arr |-> FALSE, items |-> <<s>>]
\* an ordered sequence of strings (a repeated query parameter)
Arr(ss) == [arr |-> TRUE, items |-> ss]

\* Array.prototype.join
RECURSIVE Join(_, _)
Join(items, sep) ==
    IF items = <<>> THEN <<>>
    ELSE IF Len(items) = 1 THEN items[1]
    ELSE items[1] \o sep \o Join(Tail(items), sep)

\* Unicode canonical decomposition of a string: String.prototype.localeCompare
\* compares canonically equivalent strings as equal
RECURSIVE NFD(_)
NFD(s) ==
    IF s = <<>> THEN <<>>
    ELSE (IF Head(s) = "U+00E9" THEN <<"e", "U+0301">> ELSE <<Head(s)>>) \o NFD(Tail(s))

\* the primary collation weight of a character (its place in the root
\* collation: punctuation before letters); 0 for a combining mark, which is
\* ignored at the primary level
PrimaryWeight(c) ==
    CASE c = "," -> 1
      [] c = ";" -> 2
      [] c = ":" -> 3
      [] c = "a" -> 4
      [] c = "e" -> 5
      [] c = "x" -> 6
      [] c = "y" -> 7
      [] OTHER -> 0

RECURSIVE Primary(_)
Primary(s) ==
    IF s = <<>> THEN <<>>
    ELSE (IF PrimaryWeight(Head(s)) = 0 THEN <<>> ELSE <<PrimaryWeight(Head(s))>>)
         \o Primary(Tail(s))

\* the secondary (accent) weights of a decomposed string
Secondary(s) == [i \in DOMAIN s |-> IF s[i] = "U+0301" THEN 1 ELSE 0]

\* lexicographic comparison of two sequences of weights: -1, 0 or 1
RECURSIVE CompareWeights(_, _)
CompareWeights(u, v) ==
    IF u = <<>> /\ v = <<>> THEN 0
    ELSE IF u = <<>> THEN -1
    ELSE IF v = <<>> THEN 1
    ELSE IF Head(u) < Head(v) THEN -1
    ELSE IF Head(u) > Head(v) THEN 1
    ELSE CompareWeights(Tail(u), Tail(v))

\* a.localeCompare(b): by primary weights, then by accents; 0 for
\* canonically equivalent strings
localeCompare(a, b) ==
    LET p == CompareWeights(Primary(NFD(a)), Primary(NFD(b)))
    IN IF p # 0 THEN p ELSE CompareWeights(Secondary(NFD(a)), Secondary(NFD(b)))

\* the place of entry e in a sorted list: after every entry that does not
\* compare greater (Array.prototype.sort is stable)
RECURSIVE SortedInsert(_, _)
SortedInsert(sorted, e) ==
    IF sorted = <<>> THEN <<e>>
    ELSE IF localeCompare(e.key, Head(sorted).key) < 0 THEN <<e>> \o sorted
    ELSE <<Head(sorted)>> \o SortedInsert(Tail(sorted), e)

\* entries.sort(([a], [b]) => a.localeCompare(b))
RECURSIVE SortEntries(_)
SortEntries(entries) ==
    IF entries = <<>> THEN <<>>
    ELSE SortedInsert(SortEntries(SubSeq(entries, 1, Len(entries) - 1)),
                      entries[Len(entries)])

\* FormatEntry with value[0] in place of value.join(','): a sequence
\* contributes its first item only
FormatEntryFirstItem(e) == e.key \o <<":">> \o e.value.items[1]

\* `${key}:${Array.isArray(value) ? value.join(',') : value}`
FormatEntry(e) ==
    e.key \o <<":">> \o (IF e.value.arr THEN Join(e.value.items, <<",">>) ELSE e.value.items[1])

\* toScreenshotCacheSlug(query); a query mapping is the sequence of its
\* entries in insertion order, which is the order of Object.entries
toScreenshotCacheSlug(query) ==
    LET sorted == SortEntries(query)
    IN Join([i \in DOMAIN sorted |-> FormatEntry(sorted[i])], <<";">>)

(***************************************************************************)
(* The key derivation applied to two query mappings.                       *)
(***************************************************************************)
KeyPool == {<<"a">>, <<"U+00E9">>, <<"e", "U+0301">>}
ValuePool == {Str(<<"x">>), Str(<<"x", ",", "y">>), Arr(<< <<"x">>, <<"y">> >>),
              Str(<<"x", ";", "U+00E9", ":", "x">>)}
EntryPool == [key : KeyPool, value : ValuePool]

\* the query mappings of at most MaxParams parameters: no key twice
Queries ==
    UNION {{q \in [1..n -> EntryPool] : \A i, j \in 1..n : i # j => q[i].key # q[j].key}
           : n \in 0..MaxParams}

NoSlug == <<"(none)">>

InitSlug ==
    /\ queryA \in Queries
    /\ queryB = <<>>
    /\ slugA = NoSlug
    /\ slugB = NoSlug
    /\ slugPc = "first"

\* the first request's key is derived
DeriveFirst ==
    /\ slugPc = "first"
    /\ slugA' = toScreenshotCacheSlug(queryA)
    /\ slugPc' = "second"
    /\ UNCHANGED <<queryA, queryB, slugB>>

\* a second request arrives with query q and its key is derived
DeriveSecond(q) ==
    /\ slugPc = "second"
    /\ queryB' = q
    /\ slugB' = toScreenshotCacheSlug(q)
    /\ slugPc' = "done"
    /\ UNCHANGED <<queryA, slugA>>

(***************************************************************************)
(* GET /embed.                                                             *)
(*                                                                         *)
(* The response is modelled by what decides it: the target date and the    *)
(* rows of each style's table.  The template read of line 50, the headers  *)
(* and the formatted times are left out, and tz is a single string or      *)
(* absent; locale is absent.                                               *)
(***************************************************************************)
\* a query parameter that is not in the query: req.query.x is undefined
Absent == [arr |-> FALSE, items |-> <<>>]
IsAbsent(v) == ~v.arr /\ v.items = <<>>

\* String(value): a sequence is joined by commas
ToText(v) == IF v.arr THEN Join(v.items, <<",">>) ELSE v.items[1]

DigitValue(c) ==
    CASE c = "0" -> 0 [] c = "1" -> 1 [] c = "2" -> 2 [] c = "3" -> 3 [] c = "4" -> 4
      [] c = "5" -> 5 [] c = "6" -> 6 [] c = "7" -> 7 [] c = "8" -> 8 [] c = "9" -> 9
      [] OTHER -> -1

RECURSIVE DigitsValue(_, _)
DigitsValue(s, acc) ==
    IF s = <<>> THEN acc ELSE DigitsValue(Tail(s), 10 * acc + DigitValue(Head(s)))

NaN == [nan |-> TRUE, n |-> 0]
Num(n) == [nan |-> FALSE, n |-> n]

\* the unary plus of a string: the empty string is 0, a run of decimal
\* digits its value, any other text of the model NaN
ToNumber(s) ==
    IF \E i \in DOMAIN s : DigitValue(s[i]) < 0 THEN NaN ELSE Num(DigitsValue(s, 0))

\* +(x ?? dflt)
NumberOrDefault(v, dflt) == IF IsAbsent(v) THEN Num(dflt) ELSE ToNumber(ToText(v))

\* the time zones the Temporal library knows, of those the model names
ValidZones == {<<"America/Los_Angeles">>, <<"America/New_York">>, <<"America/Denver">>,
               <<"Australia/Sydney">>, <<"Etc/UTC">>, <<"Asia/Tokyo">>, <<"Europe/Paris">>}

IsLeapYear(y) == (y % 4 = 0 /\ y % 100 # 0) \/ y % 400 = 0
DaysInMonth(y, m) ==
    IF m = 2 THEN (IF IsLeapYear(y) THEN 29 ELSE 28)
    ELSE IF m \in {4, 6, 9, 11} THEN 30 ELSE 31
Min(a, b) == IF a < b THEN a ELSE b

NoDate == [ok |-> FALSE, timeZone |-> <<>>, year |-> 0, month |-> 0, day |-> 0,
           hour |-> 0, minute |-> 0]

\* Temporal.ZonedDateTime.from({timeZone, year, month, day, hour, minute}) with
\* the default overflow 'constrain': a RangeError (ok = FALSE) for a time zone
\* that is no known identifier, for a field that is NaN and for a month or day
\* below 1; otherwise month, day, hour and minute are clamped to their range
ZonedDateTimeFrom(tz, year, month, day, hour, minute) ==
    IF \/ tz.arr \/ ToText(tz) \notin ValidZones
       \/ year.nan \/ month.nan \/ day.nan \/ hour.nan \/ minute.nan
       \/ month.n < 1 \/ day.n < 1
    THEN NoDate
    ELSE LET m == Min(month.n, 12)
         IN [ok |-> TRUE, timeZone |-> ToText(tz), year |-> year.n, month |-> m,
             day |-> Min(day.n, DaysInMonth(year.n, m)),
             hour |-> Min(hour.n, 23), minute |-> Min(minute.n, 59)]

\* String.prototype.split(sep) for a one-character separator
RECURSIVE Split(_, _)
Split(s, sep) ==
    IF \A i \in DOMAIN s : s[i] # sep THEN <<s>>
    ELSE LET i == CHOOSE k \in DOMAIN s : s[k] = sep /\ \A j \in 1..(k - 1) : s[j] # sep
         IN <<SubSeq(s, 1, i - 1)>> \o Split(SubSeq(s, i + 1, Len(s)), sep)

\* the five fixed rows of keyFormats
FixedFormats ==
    << [name |-> <<"Ward Radio HQ">>, timezone |-> <<"America/Los_Angeles">>, locale |-> "en-US"],
       [name |-> <<"US East Coasters">>, timezone |-> <<"America/New_York">>, locale |-> "en-US"],
       [name |-> <<"Mormon Central Time (Utah)">>, timezone |-> <<"America/Denver">>, locale |-> "en-US"],
       [name |-> <<"Sydney, AU">>, timezone |-> <<"Australia/Sydney">>, locale |-> "en-AU"],
       [name |-> <<"UTC/Zulu/GMT">>, timezone |-> <<"Etc/UTC">>, locale |-> "en-GB"] >>

\* typeof additionalTimezones == 'string' ? additionalTimezones.split(',')
\*     : Array.isArray(additionalTimezones) ? additionalTimezones : []
AdditionalZones(v) ==
    IF IsAbsent(v) THEN <<>>
    ELSE IF v.arr THEN v.items
    ELSE Split(v.items[1], ",")

\* keyFormats: the fixed rows, then one row per additional time zone
keyFormats(q) ==
    LET more == AdditionalZones(q.additionalTimezones)
    IN FixedFormats
       \o [i \in DOMAIN more |-> [name |-> more[i], timezone |-> more[i], locale |-> "en-US"]]

\* tz ?? 'America/Denver'
mainTimezone(q) == IF IsAbsent(q.tz) THEN Str(<<"America/Denver">>) ELSE q.tz

targetDate(q) ==
    ZonedDateTimeFrom(mainTimezone(q),
                      NumberOrDefault(q.year, 2024), NumberOrDefault(q.month, 1),
                      NumberOrDefault(q.day, 12), NumberOrDefault(q.hour, 16),
                      NumberOrDefault(q.minute, 0))

\* HasMainRow looking at the five fixed rows only
HasMainRowFixedOnly(q) ==
    \A i \in DOMAIN FixedFormats : FixedFormats[i].timezone # ToText(mainTimezone(q))

\* !keyFormats.some(f => f.timezone == mainTimezone)
HasMainRow(q) ==
    LET formats == keyFormats(q)
        main == ToText(mainTimezone(q))
    IN \A i \in DOMAIN formats : formats[i].timezone # main

\* the rows of one style's table: [area, zone] is a row labelled area that
\* shows the target time in zone
TableRows(q) ==
    LET formats == keyFormats(q)
        main == ToText(mainTimezone(q))
    IN (IF HasMainRow(q) THEN << [area |-> main, zone |-> main] >> ELSE <<>>)
       \o [i \in DOMAIN formats |-> [area |-> formats[i].name, zone |-> formats[i].timezone]]

styles == <<"normal", "wingdings", "aurebesh">>

EmbedError == [status |-> "error", date |-> NoDate, tables |-> <<>>]

\* the response of the handler: the RangeError of ZonedDateTime.from, or of
\* toZonedDateTimeISO for a row whose zone is no known identifier, leaves the
\* request without an HTML response
EmbedResponse(q) ==
    LET date == targetDate(q)
        formats == keyFormats(q)
        rows == TableRows(q)
    IN IF ~date.ok THEN EmbedError
       ELSE IF \E i \in DOMAIN formats : formats[i].timezone \notin ValidZones
       THEN EmbedError
       ELSE [status |-> "html", date |-> date,
             tables |-> [s \in DOMAIN styles |-> [class |-> styles[s], rows |-> rows]]]

TzPool == {Absent, Str(<<"America/Denver">>), Str(<<"Asia/Tokyo">>), Str(<<"Not/AZone">>)}
AdditionalPool ==
    {Absent, Str(<<>>), Str(<<"Asia/Tokyo">>), Str(<<"Asia/Tokyo", ",", "Europe/Paris">>),
     Arr(<< <<"Europe/Paris">>, <<"Asia/Tokyo">> >>), Str(<<"America/Denver">>)}
YearPool == {Absent, Str(<<>>), Str(<<"2", "0", "2", "5">>)}
MonthPool == {Absent, Str(<<"a", "b", "c">>), Str(<<"1", "3">>), Str(<<"2">>)}
DayPool == {Absent, Str(<<"3", "1">>), Str(<<"0">>)}
HourPool == {Absent, Str(<<"9", "9">>), Str(<<"7">>)}
MinutePool == {Absent, Str(<<>>), Str(<<"3", "0">>)}

EmbedQueries ==
    [tz : TzPool, additionalTimezones : AdditionalPool, year : YearPool, month : MonthPool,
     day : DayPool, hour : HourPool, minute : MinutePool]

NoQuery == [tz |-> Absent, additionalTimezones |-> Absent, year |-> Absent, month |-> Absent,
            day |-> Absent, hour |-> Absent, minute |-> Absent]
NoResponse == [status |-> "none", date |-> NoDate, tables |-> <<>>]

\* a GET /embed request with query q is handled
Embed(q) ==
    /\ embedResult.status = "none"
    /\ embedQuery' = q
    /\ embedResult' = EmbedResponse(q)

\* the next request
EmbedReset ==
    /\ embedResult.status # "none"
    /\ embedQuery' = NoQuery
    /\ embedResult' = NoResponse

(***************************************************************************)
(* GET /screenshot.png.                                                    *)
(*                                                                         *)
(* A handler runs without interruption up to each await; the operation it  *)
(* awaits takes effect at some later point and the handler resumes after   *)
(* it, while other requests' handlers run in between.                      *)
(***************************************************************************)
Requests == 1..MaxRequests

\* join(__dirname, '.tmp', randomUUID() + '.png'): a fresh path per store;
\* Path(0) is a file written by an earlier run of the server
Path(r) == [dir |-> ".tmp", uuid |-> r]
NoPath == [dir |-> "", uuid |-> 0]
\* the bytes a capture returns: each capture's image is a value of its own;
\* Image(0) is an image of an earlier run
Image(r) == [png |-> "image", of |-> r]
\* the contents of a file that writeFile has opened and not yet written
Partial == [png |-> "partial", of |-> 0]
NoImage == [png |-> "", of |-> 0]

\* the two queries requests are made with
QueryOne == << [key |-> <<"a">>, value |-> Str(<<"x">>)] >>
QueryTwo == << [key |-> <<"a">>, value |-> Str(<<"x", ",", "y">>)] >>
HandlerQueries == {QueryOne, QueryTwo}

cacheSlug(r) == toScreenshotCacheSlug(reqQuery[r])

\* delete index[key]
Without(index, key) == [k \in DOMAIN index \ {key} |-> index[k]]
\* index[key] = path
With(index, key, path) == (key :> path) @@ index

InFlight(r) == pc[r] \notin {"idle", "done"}

\* CacheHit with the result of existsSync negated
CacheHitNegated(slug) == slug \in DOMAIN screenshotCache /\ screenshotCache[slug] \notin DOMAIN files

\* cacheSlug in screenshotCache && existsSync(screenshotCache[cacheSlug])
CacheHit(slug) == slug \in DOMAIN screenshotCache /\ screenshotCache[slug] \in DOMAIN files

\* the state the server starts in: the index is what cache.json holds (the
\* empty index without the file), and a file it names may be gone
InitHandler ==
    /\ cacheJson \in {<<>>, With(<<>>, toScreenshotCacheSlug(QueryOne), Path(0))}
    /\ screenshotCache = cacheJson
    /\ files \in {<<>>, Path(0) :> Image(0)}
    /\ pages = {}
    /\ pc = [r \in Requests |-> "idle"]
    /\ reqQuery = [r \in Requests |-> <<>>]
    /\ argPath = [r \in Requests |-> NoPath]
    /\ jsonText = [r \in Requests |-> <<>>]
    /\ result = [r \in Requests |-> "none"]
    /\ sent = [r \in Requests |-> NoImage]
    /\ entry = [r \in Requests |-> [kind |-> "none", path |-> NoPath]]
    /\ captures = [r \in Requests |-> 0]
    /\ mutated = [r \in Requests |-> FALSE]
    /\ solo = [r \in Requests |-> FALSE]
    /\ prev = [r \in Requests |-> 0]
    /\ lastDone = 0
    /\ writeFailed = {}

\* the handler of request r returns or throws: the response is sent
Finish(r, how, image) ==
    /\ pc' = [pc EXCEPT ![r] = "done"]
    /\ result' = [result EXCEPT ![r] = how]
    /\ sent' = [sent EXCEPT ![r] = image]
    /\ argPath' = [argPath EXCEPT ![r] = NoPath]
    /\ jsonText' = [jsonText EXCEPT ![r] = <<>>]
    /\ lastDone' = r

\* lines 146-159, up to the first await: request r arrives with query q
\* (requests are numbered in the order they arrive)
Arrive(r, q) ==
    /\ pc[r] = "idle"
    /\ \A s \in Requests : s < r => pc[s] # "idle"
    /\ reqQuery' = [reqQuery EXCEPT ![r] = q]
    /\ LET slug == toScreenshotCacheSlug(q)
       IN IF CacheHit(slug)
          THEN \* line 151: readFile(screenshotCache[cacheSlug]) is called
               /\ pc' = [pc EXCEPT ![r] = "readFile"]
               /\ argPath' = [argPath EXCEPT ![r] = screenshotCache[slug]]
               /\ entry' = [entry EXCEPT ![r] = [kind |-> "hit", path |-> screenshotCache[slug]]]
               /\ UNCHANGED captures
          ELSE IF slug \in DOMAIN screenshotCache
          THEN \* line 155: rm(screenshotCache[cacheSlug]) is called
               /\ pc' = [pc EXCEPT ![r] = "rm"]
               /\ argPath' = [argPath EXCEPT ![r] = screenshotCache[slug]]
               /\ entry' = [entry EXCEPT ![r] = [kind |-> "stale", path |-> screenshotCache[slug]]]
               /\ UNCHANGED captures
          ELSE \* line 159: browserContext.newPage() is called
               /\ pc' = [pc EXCEPT ![r] = "newPage"]
               /\ argPath' = argPath
               /\ entry' = [entry EXCEPT ![r] = [kind |-> "miss", path |-> NoPath]]
               /\ captures' = [captures EXCEPT ![r] = 1]
    /\ solo' = [s \in Requests |->
                  IF s = r THEN \A o \in Requests : ~InFlight(o)
                  ELSE IF InFlight(s) THEN FALSE ELSE solo[s]]
    /\ prev' = [prev EXCEPT ![r] = lastDone]
    /\ UNCHANGED <<sharedVars, jsonText, result, sent, mutated, lastDone, writeFailed>>

\* line 151: readFile settles and the handler sends what it read; ENOENT
\* when the file is gone by then
ReadFileDone(r) ==
    /\ pc[r] = "readFile"
    /\ IF argPath[r] \in DOMAIN files
       THEN Finish(r, "png", files[argPath[r]])
       ELSE Finish(r, "error", NoImage)
    /\ UNCHANGED <<sharedVars, reqQuery, entry, captures, mutated, solo, prev, writeFailed>>

\* line 155: rm (without force) finds no file and rejects with ENOENT; the
\* handler throws before line 156
RmFails(r) ==
    /\ pc[r] = "rm"
    /\ argPath[r] \notin DOMAIN files
    /\ Finish(r, "error", NoImage)
    /\ UNCHANGED <<sharedVars, reqQuery, entry, captures, mutated, solo, prev, writeFailed>>

\* line 155: rm finds the file, which a store created since the check of
\* line 150, and unlinks it
RmUnlinks(r) ==
    /\ pc[r] = "rm"
    /\ argPath[r] \in DOMAIN files
    /\ files' = [p \in DOMAIN files \ {argPath[r]} |-> files[p]]
    /\ pc' = [pc EXCEPT ![r] = "rmOk"]
    /\ mutated' = [mutated EXCEPT ![r] = TRUE]
    /\ UNCHANGED <<screenshotCache, cacheJson, pages, reqQuery, argPath, jsonText, result,
                   sent, entry, captures, solo, prev, lastDone, writeFailed>>

\* lines 156-159: the handler resumes after rm, deletes the index entry and
\* calls newPage
RmResume(r) ==
    /\ pc[r] = "rmOk"
    /\ screenshotCache' = Without(screenshotCache, cacheSlug(r))
    /\ pc' = [pc EXCEPT ![r] = "newPage"]
    /\ captures' = [captures EXCEPT ![r] = 1]
    /\ mutated' = [mutated EXCEPT ![r] = TRUE]
    /\ UNCHANGED <<files, cacheJson, pages, reqQuery, argPath, jsonText, result, sent,
                   entry, solo, prev, lastDone, writeFailed>>

\* a step of the capture fails: the handler throws where it stands, which
\* is before page.close() of line 174
CaptureThrows(r) ==
    /\ Finish(r, "error", NoImage)
    /\ UNCHANGED <<sharedVars, reqQuery, entry, captures, mutated, solo, prev, writeFailed>>

\* line 159: newPage settles; line 161: page.goto is called
NewPageDone(r, ok) ==
    /\ pc[r] = "newPage"
    /\ IF ok
       THEN /\ pages' = pages \cup {r}
            /\ pc' = [pc EXCEPT ![r] = "goto"]
            /\ UNCHANGED <<screenshotCache, files, cacheJson, reqQuery, argPath, jsonText,
                           result, sent, histVars>>
       ELSE CaptureThrows(r)

\* line 161: goto settles; line 162: boundingBox is called
GotoDone(r, ok) ==
    /\ pc[r] = "goto"
    /\ IF ok
       THEN /\ pc' = [pc EXCEPT ![r] = "boundingBox"]
            /\ UNCHANGED <<sharedVars, reqQuery, argPath, jsonText, result, sent, histVars>>
       ELSE CaptureThrows(r)

\* line 162: boundingBox settles (it rejects when no element is found in
\* time, and its null for a hidden element throws at line 166); line 164:
\* page.screenshot is called
BoundingBoxDone(r, ok) ==
    /\ pc[r] = "boundingBox"
    /\ IF ok
       THEN /\ pc' = [pc EXCEPT ![r] = "screenshot"]
            /\ UNCHANGED <<sharedVars, reqQuery, argPath, jsonText, result, sent, histVars>>
       ELSE CaptureThrows(r)

\* line 164: screenshot settles with the image; line 174: page.close is called
ScreenshotDone(r, ok) ==
    /\ pc[r] = "screenshot"
    /\ IF ok
       THEN /\ pc' = [pc EXCEPT ![r] = "close"]
            /\ UNCHANGED <<sharedVars, reqQuery, argPath, jsonText, result, sent, histVars>>
       ELSE CaptureThrows(r)

\* line 174: the page is closed; line 176: the index entry is set to a
\* fresh path; line 178: writeFile(path, image) is called
CloseDone(r) ==
    /\ pc[r] = "close"
    /\ pages' = pages \ {r}
    /\ screenshotCache' = With(screenshotCache, cacheSlug(r), Path(r))
    /\ argPath' = [argPath EXCEPT ![r] = Path(r)]
    /\ pc' = [pc EXCEPT ![r] = "writePng"]
    /\ mutated' = [mutated EXCEPT ![r] = TRUE]
    /\ UNCHANGED <<files, cacheJson, reqQuery, jsonText, result, sent, entry, captures,
                   solo, prev, lastDone, writeFailed>>

\* line 178: writeFile opens the file, which creates it empty, or fails
\* (no .tmp directory, no space)
WritePngOpen(r, ok) ==
    /\ pc[r] = "writePng"
    /\ IF ok
       THEN /\ files' = (argPath[r] :> Partial) @@ files
            /\ pc' = [pc EXCEPT ![r] = "writePngData"]
            /\ mutated' = [mutated EXCEPT ![r] = TRUE]
            /\ UNCHANGED <<screenshotCache, cacheJson, pages, reqQuery, argPath, jsonText,
                           result, sent, entry, captures, solo, prev, lastDone, writeFailed>>
       ELSE /\ Finish(r, "error", NoImage)
            /\ writeFailed' = writeFailed \cup {"png"}
            /\ UNCHANGED <<sharedVars, reqQuery, entry, captures, mutated, solo, prev>>

\* line 178: writeFile writes the image and settles (into the unlinked file
\* when an rm has removed the path meanwhile); line 179:
\* JSON.stringify(screenshotCache) is evaluated and writeFile(cache.json) called
WritePngDone(r) ==
    /\ pc[r] = "writePngData"
    /\ files' = IF argPath[r] \in DOMAIN files
                THEN [files EXCEPT ![argPath[r]] = Image(r)]
                ELSE files
    /\ jsonText' = [jsonText EXCEPT ![r] = screenshotCache]
    /\ pc' = [pc EXCEPT ![r] = "writeJson"]
    /\ UNCHANGED <<screenshotCache, cacheJson, pages, reqQuery, argPath, result, sent,
                   histVars>>

\* line 179: the write of cache.json lands with the text of its call and
\* settles, or fails; line 181: the image is sent.  Writes of overlapping
\* requests land in any order.
WriteJsonDone(r, ok) ==
    /\ pc[r] = "writeJson"
    /\ IF ok
       THEN /\ cacheJson' = jsonText[r]
            /\ Finish(r, "png", Image(r))
            /\ mutated' = [mutated EXCEPT ![r] = TRUE]
            /\ UNCHANGED <<screenshotCache, files, pages, reqQuery, entry, captures, solo,
                           prev, writeFailed>>
       ELSE /\ Finish(r, "error", NoImage)
            /\ writeFailed' = writeFailed \cup {"json"}
            /\ UNCHANGED <<sharedVars, reqQuery, entry, captures, mutated, solo, prev>>

(***************************************************************************)
(* The specifications.                                                     *)
(***************************************************************************)
IdleSlug ==
    /\ queryA = <<>>
    /\ queryB = <<>>
    /\ slugA = NoSlug
    /\ slugB = NoSlug
    /\ slugPc = "off"

IdleEmbed ==
    /\ embedQuery = NoQuery
    /\ embedResult = NoResponse

IdleHandler ==
    /\ InitHandler
    /\ cacheJson = <<>>
    /\ files = <<>>

\* GET /screenshot.png requests against the cache
Init == InitHandler /\ IdleSlug /\ IdleEmbed
Next ==
    \E r \in Requests :
        \/ \E q \in HandlerQueries : Arrive(r, q) /\ UNCHANGED <<slugVars, embedVars>>
        \/ ReadFileDone(r) /\ UNCHANGED <<slugVars, embedVars>>
        \/ RmFails(r) /\ UNCHANGED <<slugVars, embedVars>>
        \/ RmUnlinks(r) /\ UNCHANGED <<slugVars, embedVars>>
        \/ RmResume(r) /\ UNCHANGED <<slugVars, embedVars>>
        \/ \E ok \in BOOLEAN : NewPageDone(r, ok) /\ UNCHANGED <<slugVars, embedVars>>
        \/ \E ok \in BOOLEAN : GotoDone(r, ok) /\ UNCHANGED <<slugVars, embedVars>>
        \/ \E ok \in BOOLEAN : BoundingBoxDone(r, ok) /\ UNCHANGED <<slugVars, embedVars>>
        \/ \E ok \in BOOLEAN : ScreenshotDone(r, ok) /\ UNCHANGED <<slugVars, embedVars>>
        \/ CloseDone(r) /\ UNCHANGED <<slugVars, embedVars>>
        \/ \E ok \in BOOLEAN : WritePngOpen(r, ok) /\ UNCHANGED <<slugVars, embedVars>>
        \/ WritePngDone(r) /\ UNCHANGED <<slugVars, embedVars>>
        \/ \E ok \in BOOLEAN : WriteJsonDone(r, ok) /\ UNCHANGED <<slugVars, embedVars>>
Spec == Init /\ [][Next]_vars

\* the key derivation on pairs of query mappings
InitSlugSpec == InitSlug /\ IdleEmbed /\ IdleHandler
NextSlug ==
    \/ DeriveFirst /\ UNCHANGED <<embedVars, handlerVars>>
    \/ /\ slugPc = "second"
       /\ \E q \in Queries : DeriveSecond(q) /\ UNCHANGED <<embedVars, handlerVars>>
SpecSlug == InitSlugSpec /\ [][NextSlug]_vars

\* GET /embed requests
InitEmbedSpec == IdleSlug /\ IdleEmbed /\ IdleHandler
NextEmbed ==
    \/ /\ embedResult.status = "none"
       /\ \E q \in EmbedQueries : Embed(q) /\ UNCHANGED <<slugVars, handlerVars>>
    \/ EmbedReset /\ UNCHANGED <<slugVars, handlerVars>>
SpecEmbed == InitEmbedSpec /\ [][NextEmbed]_vars

(***************************************************************************)
(* The properties.                                                         *)
(***************************************************************************)
Quiescent == \A r \in Requests : ~InFlight(r)
Range(f) == {f[i] : i \in DOMAIN f}

\* C1: a request that finds its key in the index and the file missing
\* falls through to the capture, and after it the index no longer maps the
\* key to the stale path.
C1_SelfHealing ==
    \A r \in Requests :
        (pc[r] = "done" /\ entry[r].kind = "stale")
        => /\ captures[r] = 1
           /\ ~(cacheSlug(r) \in DOMAIN screenshotCache
                /\ screenshotCache[cacheSlug(r)] = entry[r].path)

\* the case of C2: r1 found no entry for its key, overlapped no request and
\* was answered with its image; r2, with the same query, arrived next, after
\* r1 had finished, overlapped no request and has finished
MissThenHit(r1, r2) ==
    /\ r1 # r2
    /\ pc[r1] = "done" /\ pc[r2] = "done"
    /\ reqQuery[r1] = reqQuery[r2]
    /\ entry[r1].kind = "miss" /\ solo[r1] /\ result[r1] = "png"
    /\ prev[r2] = r1 /\ solo[r2]

\* C2: of two requests with the same query that do not overlap, the first
\* starting without an index entry and answered with its image, the first
\* invoked the capture once, wrote the image to a new file and set the index
\* entry to it; the second invoked no capture, changed neither the index nor
\* a file, and was answered with the bytes the first stored and returned.
C2_MissThenHit ==
    \A r1, r2 \in Requests :
        MissThenHit(r1, r2)
        => /\ captures[r1] = 1
           /\ cacheSlug(r1) \in DOMAIN screenshotCache
           /\ screenshotCache[cacheSlug(r1)] = Path(r1)
           /\ Path(r1) \in DOMAIN files
           /\ files[Path(r1)] = Image(r1)
           /\ sent[r1] = Image(r1)
           /\ captures[r2] = 0
           /\ ~mutated[r2]
           /\ result[r2] = "png"
           /\ sent[r2] = Image(r1)

\* the case of C2 has happened: the second request was a hit and was sent
\* the first one's image
C2_Witness ==
    \E r1, r2 \in Requests :
        /\ MissThenHit(r1, r2)
        /\ entry[r2].kind = "hit"
        /\ sent[r2] = Image(r1)

\* some parameter that both mappings hold has different values in them
DiffersInValue(qa, qb) ==
    \E i \in DOMAIN qa, j \in DOMAIN qb : qa[i].key = qb[j].key /\ qa[i].value # qb[j].value

\* some parameter that both mappings hold has values of different text, a
\* sequence taken as its items joined by commas
DiffersInText(qa, qb) ==
    \E i \in DOMAIN qa, j \in DOMAIN qb :
        qa[i].key = qb[j].key /\ ToText(qa[i].value) # ToText(qb[j].value)

HasSeparator(s) == \E i \in DOMAIN s : s[i] \in {":", ";"}
\* no key and no value of the mapping holds ':' or ';'
SeparatorFree(q) ==
    \A i \in DOMAIN q :
        /\ ~HasSeparator(q[i].key)
        /\ \A k \in DOMAIN q[i].value.items : ~HasSeparator(q[i].value.items[k])

\* C3 as claimed: two query mappings that differ in the value of a parameter
\* have different keys.
C3_Sensitivity ==
    (slugPc = "done" /\ DiffersInValue(queryA, queryB)) => slugA # slugB

\* C3 as amended: two query mappings whose keys and values hold neither ':'
\* nor ';', and in which the value of some parameter has different text
\* (a sequence taken as its items joined by commas), have different keys.
C3_SensitivityOfText ==
    (slugPc = "done" /\ SeparatorFree(queryA) /\ SeparatorFree(queryB)
        /\ DiffersInText(queryA, queryB))
    => slugA # slugB

\* two separator-free mappings of two parameters, a key in both with values
\* of different text, one value a sequence, and their keys differ
C3_Witness ==
    /\ slugPc = "done"
    /\ Len(queryA) = 2 /\ Len(queryB) = 2
    /\ queryA[1].key = queryB[2].key
    /\ SeparatorFree(queryA) /\ SeparatorFree(queryB)
    /\ DiffersInText(queryA, queryB)
    /\ \E i \in 1..2 : queryA[i].value.arr
    /\ slugA # slugB

\* C4: two mappings with the same (key, value) pairs, inserted in whatever
\* order, have the same key.
C4_OrderIndependent ==
    (slugPc = "done" /\ Range(queryA) = Range(queryB)) => slugA = slugB

\* a parameter of GET /embed that is a number of the field's range
WellFormed(v, lo, hi) ==
    /\ ~IsAbsent(v)
    /\ ToText(v) # <<>>
    /\ \A i \in DOMAIN ToText(v) : DigitValue(ToText(v)[i]) >= 0
    /\ DigitsValue(ToText(v), 0) >= lo
    /\ DigitsValue(ToText(v), 0) <= hi

\* C5: GET /embed answers every query with HTML, and a field that is
\* missing or malformed takes the field's own default.
C5_DefaultsNeverFail ==
    embedResult.status # "none"
    => /\ embedResult.status = "html"
       /\ (IsAbsent(embedQuery.tz) \/ ToText(embedQuery.tz) \notin ValidZones)
            => embedResult.date.timeZone = <<"America/Denver">>
       /\ ~WellFormed(embedQuery.year, 0, 9999) => embedResult.date.year = 2024
       /\ ~WellFormed(embedQuery.month, 1, 12) => embedResult.date.month = 1
       /\ ~WellFormed(embedQuery.day, 1, 31) => embedResult.date.day = 12
       /\ ~WellFormed(embedQuery.hour, 0, 23) => embedResult.date.hour = 16
       /\ ~WellFormed(embedQuery.minute, 0, 59) => embedResult.date.minute = 0

\* the zones of the five fixed rows
FixedZones ==
    {<<"America/Los_Angeles">>, <<"America/New_York">>, <<"America/Denver">>,
     <<"Australia/Sydney">>, <<"Etc/UTC">>}
FixedAreas ==
    << <<"Ward Radio HQ">>, <<"US East Coasters">>, <<"Mormon Central Time (Utah)">>,
       <<"Sydney, AU">>, <<"UTC/Zulu/GMT">> >>

\* the entries of additionalTimezones, for the values GET /embed is given
ExpectedAdditional(v) ==
    CASE v = Str(<<"Asia/Tokyo">>) -> << <<"Asia/Tokyo">> >>
      [] v = Str(<<"Asia/Tokyo", ",", "Europe/Paris">>) -> << <<"Asia/Tokyo">>, <<"Europe/Paris">> >>
      [] v = Arr(<< <<"Europe/Paris">>, <<"Asia/Tokyo">> >>) -> << <<"Europe/Paris">>, <<"Asia/Tokyo">> >>
      [] v = Str(<<"America/Denver">>) -> << <<"America/Denver">> >>
      [] v = Str(<<>>) -> << <<>> >>
      [] OTHER -> <<>>

ExpectedMain(q) == IF IsAbsent(q.tz) THEN <<"America/Denver">> ELSE q.tz.items[1]

\* the table starts with a row for the main zone exactly if wanted, and the
\* rest is the five fixed rows and a row per additional entry
TableIs(rows, q, wanted) ==
    LET main == ExpectedMain(q)
        more == ExpectedAdditional(q.additionalTimezones)
        lead == IF wanted THEN 1 ELSE 0
    IN /\ Len(rows) = lead + 5 + Len(more)
       /\ wanted => rows[1] = [area |-> main, zone |-> main]
       /\ \A i \in 1..5 : rows[lead + i].area = FixedAreas[i]
       /\ \A i \in 1..5 : rows[lead + i].zone \in FixedZones
       /\ \A i \in DOMAIN more : rows[lead + 5 + i] = [area |-> more[i], zone |-> more[i]]

\* C6 as claimed: each style's table starts with a row for the main zone
\* exactly if the main zone is none of the five fixed rows' zones; the rest
\* is the five fixed rows and a row per additionalTimezones entry.
C6_MainRowFixedOnly ==
    embedResult.status = "html"
    => \A s \in DOMAIN embedResult.tables :
          TableIs(embedResult.tables[s].rows, embedQuery,
                  ExpectedMain(embedQuery) \notin FixedZones)

\* C6 as amended: each style's table starts with a row for the main zone
\* exactly if the main zone is none of the zones of the five fixed rows and
\* none of the additionalTimezones entries; the rest is the five fixed rows
\* and a row per additionalTimezones entry.
C6_MainRow ==
    embedResult.status = "html"
    => /\ Len(embedResult.tables) = 3
       /\ \A s \in DOMAIN embedResult.tables :
             TableIs(embedResult.tables[s].rows, embedQuery,
                     ExpectedMain(embedQuery) \notin
                         (FixedZones \cup Range(ExpectedAdditional(embedQuery.additionalTimezones))))

\* the main zone is an additional entry and none of the fixed zones: the
\* table is the five fixed rows and the two additional ones
C6_Witness ==
    /\ embedResult.status = "html"
    /\ embedQuery.tz = Str(<<"Asia/Tokyo">>)
    /\ embedQuery.additionalTimezones = Str(<<"Asia/Tokyo", ",", "Europe/Paris">>)
    /\ Len(embedResult.tables[1].rows) = 7
    /\ embedResult.tables[1].rows[1].area = <<"Ward Radio HQ">>

\* C7: whenever no request is in flight and no file write has failed,
\* cache.json holds the in-memory index.  (The claim excepts only failed
\* writes of cache.json; this excepts failed writes of the images too.)
C7_IndexDurable ==
    (Quiescent /\ writeFailed = {}) => cacheJson = screenshotCache

\* C8: at every point where another request can run, an index entry that a
\* store created names a file that exists and holds the captured bytes.
C8_StoredFileComplete ==
    writeFailed = {}
    => \A k \in DOMAIN screenshotCache :
          screenshotCache[k].uuid # 0
          => /\ screenshotCache[k] \in DOMAIN files
             /\ files[screenshotCache[k]] = Image(screenshotCache[k].uuid)

\* the case of C9: r1 and r2, with the same query, both found no entry for
\* their key, and both were answered with an image; no other request arrived
BothMissed(r1, r2) ==
    /\ r1 < r2
    /\ pc[r1] = "done" /\ pc[r2] = "done"
    /\ reqQuery[r1] = reqQuery[r2]
    /\ entry[r1].kind = "miss" /\ entry[r2].kind = "miss"
    /\ result[r1] = "png" /\ result[r2] = "png"
    /\ \A o \in Requests \ {r1, r2} : pc[o] = "idle"

\* the outcome of C9 apart from cache.json
LastWriteWinsInMemory(r1, r2) ==
    \E last \in {r1, r2} :
        LET first == IF last = r1 THEN r2 ELSE r1
            key == cacheSlug(r1)
        IN /\ key \in DOMAIN screenshotCache
           /\ screenshotCache[key] = Path(last)
           /\ Path(last) \in DOMAIN files
           /\ files[Path(last)] = Image(last)
           /\ sent[r1] = Image(r1) /\ sent[r2] = Image(r2)
           /\ Path(first) \in DOMAIN files
           /\ \A k \in DOMAIN screenshotCache : screenshotCache[k] # Path(first)

\* C9: after two requests for one key that both missed, the index entry, in
\* memory and in cache.json, is the path of the request that stored last,
\* whose file holds its image; both were answered with their own image, and
\* the earlier file is on disk, named by no index entry.
C9_LastWriteWins ==
    \A r1, r2 \in Requests :
        BothMissed(r1, r2)
        => /\ LastWriteWinsInMemory(r1, r2)
           /\ cacheSlug(r1) \in DOMAIN cacheJson
           /\ cacheJson[cacheSlug(r1)] = screenshotCache[cacheSlug(r1)]

\* C10: a request that has finished has left no page open.
C10_PagesClosed ==
    \A r \in Requests : pc[r] = "done" => r \notin pages

====
